---- MODULE Spec2Model ----
(***************************************************************************)
(* A model of impossible.py: deciding predicates over Cantor space.        *)
(*                                                                         *)
(* Python closures are represented by the data that determines them:       *)
(*   - a Cantor object by the function it was built from,                  *)
(*   - a predicate by the lambda/def that created it.                      *)
(* The functions of the module are translated twice: as recursive          *)
(* operators (the value a call returns) and as a call-stack machine (the   *)
(* steps by which the interpreter gets there).                             *)
(***************************************************************************)
EXTENDS Integers, Sequences, FiniteSets, TLC

(***************************************************************************)
(* Bounds of the model.                                                    *)
(***************************************************************************)
\* predicates handed to the library inspect indices 0..K-1 only
K == 3
\* ... and are decision procedures with at most MaxNodes index lookups in all
MaxNodes == 2
\* find(p) is read at indices 0..K+Beyond-1
Beyond == 2
\* longest list of bools that is prepended to a Cantor
MaxPrefix == 2
\* the runs that are followed step by step take predicates over indices
\* 0..StepK-1 with at most StepNodes lookups
StepK == 2
StepNodes == 2

(***************************************************************************)
(* A predicate supplied by a caller (test_impossible.py: true_pred,        *)
(* simple_pred, ...) is a terminating Python function of a Cantor: it      *)
(* reads cantor[i] for some i, branches on the answer, and so on until it  *)
(* returns.  That is a finite decision tree.                               *)
(***************************************************************************)
Leaf(b) == <<"ret", b>>
Node(i, lo, hi) == <<"ask", i, lo, hi>>

\* the trees with exactly n lookups, all at indices < k
RECURSIVE TreesOfSize(_, _)
TreesOfSize(k, n) ==
    IF n = 0 THEN {Leaf(FALSE), Leaf(TRUE)}
    ELSE UNION { { Node(i, lo, hi) : i \in 0..(k-1),
                                     lo \in TreesOfSize(k, a),
                                     hi \in TreesOfSize(k, n-1-a) } : a \in 0..(n-1) }

TreesUpTo(k, n) == UNION { TreesOfSize(k, m) : m \in 0..n }

Trees == TreesUpTo(K, MaxNodes)

\* the predicates of test_impossible.py that fit the model's index range
true_pred == Leaf(TRUE)
false_pred == Leaf(FALSE)
simple_pred == Node(0, Leaf(FALSE), Leaf(TRUE))

\* 1 + the largest index the tree can ask for: the tree depends on indices < Bound
RECURSIVE Bound(_)
Bound(t) ==
    IF t[1] = "ret" THEN 0
    ELSE LET m == IF Bound(t[3]) > Bound(t[4]) THEN Bound(t[3]) ELSE Bound(t[4])
         IN  IF t[2] + 1 > m THEN t[2] + 1 ELSE m

(***************************************************************************)
(* Predicates (closures).                                                  *)
(***************************************************************************)
TreePred(t) == <<"tree", t>>
\* lambda cantor: pred([b] + cantor)
Shift(b, pred) == <<"shift", b, pred>>
\* (a not_pred that forgets the negation)
not_pred_plain(pred) == <<"wrap", pred>>
\* lambda cantor: not pred(cantor)
not_pred(pred) == <<"not", pred>>
\* (a pred3 that compares pred1 with itself)
pred3_same(pred1, pred2) == <<"eq", pred1, pred1>>
\* def pred3(cantor): return pred1(cantor) == pred2(cantor)
pred3(pred1, pred2) == <<"eq", pred1, pred2>>
\* lambda x: pred(x)
Wrapper(pred) == <<"wrap", pred>>

(***************************************************************************)
(* Cantor objects.                                                         *)
(***************************************************************************)
\* Cantor(func) for a total func
Cantor(func) == <<"fn", func>>
\* Cantor(lambda i: find(pred)[i])
LazyFind(pred) == <<"lazy", pred>>
\* bools + self
RAdd(bools, self) == <<"radd", bools, self>>
None == <<"none">>

\* (the argument without the bit in front)
shift_argument_bare(b, cantor) == cantor
\* [b] + cantor, the argument that lambda cantor: pred([b] + cantor) hands to pred
shift_argument(b, cantor) == RAdd(<<b>>, cantor)

RECURSIVE GetItem(_, _), Call(_, _), RunTree(_, _), find(_)

for_some(pred) == Call(pred, LazyFind(pred))

\* (the two branches of find exchanged)
find_result_swapped(v, pred) ==
    IF v
    THEN RAdd(<<TRUE>>, LazyFind(Shift(TRUE, pred)))
    ELSE RAdd(<<FALSE>>, LazyFind(Shift(FALSE, pred)))
\* what find returns once for_some(lambda cantor: pred([False] + cantor)) is known
find_result(v, pred) ==
    IF v
    THEN RAdd(<<FALSE>>, LazyFind(Shift(FALSE, pred)))
    ELSE RAdd(<<TRUE>>, LazyFind(Shift(TRUE, pred)))

\* (a find that tries True first)
find_true_first(pred) ==
    IF for_some(Shift(TRUE, pred))
    THEN RAdd(<<TRUE>>, LazyFind(Shift(TRUE, pred)))
    ELSE RAdd(<<FALSE>>, LazyFind(Shift(FALSE, pred)))
\* (a find whose fallback is the False branch)
find_fallback_false(pred) == RAdd(<<FALSE>>, LazyFind(Shift(FALSE, pred)))
\* (a find that tests the True branch and takes the False one)
find_wrong_test(pred) == find_result(for_some(Shift(TRUE, pred)), pred)
find(pred) == find_result(for_some(Shift(FALSE, pred)), pred)

\* (a new_func that passes the index on as it is)
new_func_same_index(bools, self, index) ==
    IF index < Len(bools)
    THEN bools[index + 1]
    ELSE GetItem(self, index)
new_func(bools, self, index) ==
    IF index < Len(bools)
    THEN bools[index + 1]
    ELSE GetItem(self, index - Len(bools))

GetItem(c, index) ==
    CASE c[1] = "fn" -> c[2][index]
      [] c[1] = "radd" -> new_func(c[2], c[3], index)
      [] c[1] = "lazy" -> GetItem(find(c[2]), index)

RunTree(t, cantor) ==
    IF t[1] = "ret" THEN t[2]
    ELSE IF GetItem(cantor, t[2]) THEN RunTree(t[4], cantor) ELSE RunTree(t[3], cantor)

Call(pred, cantor) ==
    CASE pred[1] = "tree" -> RunTree(pred[2], cantor)
      [] pred[1] = "shift" -> Call(pred[3], shift_argument(pred[2], cantor))
      [] pred[1] = "not" -> ~Call(pred[2], cantor)
      [] pred[1] = "eq" -> (Call(pred[2], cantor) = Call(pred[3], cantor))
      [] pred[1] = "wrap" -> Call(pred[2], cantor)

\* (a for_every that forgets the outer not)
for_every_plain(pred) == for_some(not_pred(pred))
for_every(pred) == ~for_some(not_pred(pred))

\* (a search that does not ask for_some)
search_unchecked(pred) == find(pred)
search(pred) == IF for_some(pred) THEN find(pred) ELSE None

equal(pred1, pred2) == for_every(pred3(pred1, pred2))

(***************************************************************************)
(* What the quantifiers are supposed to compute: the predicates at hand    *)
(* depend on indices < K only, so the sequences that differ below K stand  *)
(* for all of Cantor space.                                                *)
(***************************************************************************)
Points == { Cantor(f) : f \in [0..(K-1) -> BOOLEAN] }
Holds(t, s) == RunTree(t, s)
Satisfiable(t) == \E s \in Points : Holds(t, s)
Valid(t) == \A s \in Points : Holds(t, s)
Agree(t1, t2) == \A s \in Points : Holds(t1, s) = Holds(t2, s)

\* lexicographic order on the first K bits, False < True
LexLess(s1, s2) ==
    \E j \in 0..(K-1) : /\ \A i \in 0..(j-1) : s1[2][i] = s2[2][i]
                        /\ ~s1[2][j]
                        /\ s2[2][j]
LeastPoint(t) ==
    CHOOSE s \in Points : /\ Holds(t, s)
                          /\ \A s2 \in Points : Holds(t, s2) => (s2 = s \/ LexLess(s, s2))

(***************************************************************************)
(* The library as its callers see it: a caller picks arguments and makes   *)
(* one call.                                                               *)
(***************************************************************************)
VARIABLES args, op, index, result, ctl, stack
vars == <<args, op, index, result, ctl, stack>>

Indices == 0..(K + Beyond - 1)
PairTrees == TreesUpTo(K, MaxNodes - 1)
\* a reformulation of t: look at an index first, then decide as t does
Padded(i, t) == Node(i, t, t)
Rivals(k, t) == TreesUpTo(k, 1) \cup { Padded(i, t) : i \in 0..(k-1) }

RECURSIVE BoolLists(_)
BoolLists(n) ==
    IF n = 0 THEN { <<>> }
    ELSE BoolLists(n-1) \cup { Append(l, b) : l \in { x \in BoolLists(n-1) : Len(x) = n-1 }, b \in BOOLEAN }

\* the indices at which a prepended sequence is read
RAddIndices == 0..(MaxPrefix + Beyond - 1)
RAddArgs == { <<"radd", bools, c>> : bools \in BoolLists(MaxPrefix),
                                     c \in { Cantor(f) : f \in [RAddIndices -> BOOLEAN] } }

Fresh ==
    /\ op = "init"
    /\ index = 0
    /\ result = FALSE
    /\ ctl = <<"idle">>
    /\ stack = <<>>

Init ==
    /\ \E t \in Trees : args = <<"pred", t>>
    /\ Fresh

CallForSome ==
    /\ op = "init" /\ args[1] = "pred"
    /\ op' = "for_some"
    /\ result' = for_some(TreePred(args[2]))
    /\ UNCHANGED <<args, index, ctl, stack>>

CallForEvery ==
    /\ op = "init" /\ args[1] = "pred"
    /\ op' = "for_every"
    /\ result' = for_every(TreePred(args[2]))
    /\ UNCHANGED <<args, index, ctl, stack>>

\* find(pred)[i]
CallFind ==
    /\ op = "init" /\ args[1] = "pred"
    /\ \E i \in Indices :
          /\ index' = i
          /\ result' = GetItem(find(TreePred(args[2])), i)
    /\ op' = "find"
    /\ UNCHANGED <<args, ctl, stack>>

\* pred(find(pred))
CallPredOfFind ==
    /\ op = "init" /\ args[1] = "pred"
    /\ op' = "pred_of_find"
    /\ result' = Call(TreePred(args[2]), find(TreePred(args[2])))
    /\ UNCHANGED <<args, index, ctl, stack>>

CallSearch ==
    /\ op = "init" /\ args[1] = "pred"
    /\ op' = "search"
    /\ result' = search(TreePred(args[2]))
    /\ UNCHANGED <<args, index, ctl, stack>>

\* test_impossible: the branch taken and the value of the expression it asserts on
TestAgreement ==
    /\ op = "init" /\ args[1] = "pred"
    /\ op' = "test_agreement"
    /\ result' = IF ~equal(TreePred(args[2]), TreePred(false_pred))
                 THEN <<"if", Call(TreePred(args[2]), find(TreePred(args[2])))>>
                 ELSE <<"else", for_some(TreePred(args[2]))>>
    /\ UNCHANGED <<args, index, ctl, stack>>

Next ==
    \/ CallForSome
    \/ CallForEvery
    \/ CallFind
    \/ CallPredOfFind
    \/ CallSearch
    \/ TestAgreement

Spec == Init /\ [][Next]_vars

(***************************************************************************)
(* Callers of Cantor.__radd__.                                             *)
(***************************************************************************)
InitRAdd ==
    /\ args \in RAddArgs
    /\ Fresh

\* (bools + c)[i], and c afterwards
CallRAdd ==
    /\ op = "init" /\ args[1] = "radd"
    /\ \E i \in RAddIndices :
          /\ index' = i
          /\ result' = <<GetItem(RAdd(args[2], args[3]), i), args[3]>>
    /\ op' = "radd"
    /\ UNCHANGED <<args, ctl, stack>>

NextRAdd == CallRAdd

SpecRAdd == InitRAdd /\ [][NextRAdd]_vars

(***************************************************************************)
(* Callers of equal.                                                       *)
(***************************************************************************)
InitEqual ==
    /\ \/ \E t \in Trees : args = <<"pred", t>>
       \/ \E t1 \in Trees : \E t2 \in {true_pred, false_pred, simple_pred} :
             args = <<"pair", t1, t2>>
       \/ \E t1 \in PairTrees : \E t2 \in Rivals(K, t1) : args = <<"pair", t1, t2>>
    /\ Fresh

CallEqual ==
    /\ op = "init" /\ args[1] = "pair"
    /\ op' = "equal"
    /\ result' = equal(TreePred(args[2]), TreePred(args[3]))
    /\ UNCHANGED <<args, index, ctl, stack>>

\* test_impossible: equal(pred, lambda x: pred(x))
TestReflexive ==
    /\ op = "init" /\ args[1] = "pred"
    /\ op' = "test_reflexive"
    /\ result' = equal(TreePred(args[2]), Wrapper(TreePred(args[2])))
    /\ UNCHANGED <<args, index, ctl, stack>>

NextEqual ==
    \/ CallEqual
    \/ TestReflexive

SpecEqual == InitEqual /\ [][NextEqual]_vars

(***************************************************************************)
(* The same functions, step by step.  ctl is the call being executed or    *)
(* the value being returned; stack holds, innermost last, the callers      *)
(* that wait for a value and still have work to do with it (a caller that  *)
(* returns its callee's value as it is keeps no frame).  A returned bool   *)
(* is <<"return", v>>, a returned Cantor or None <<"return_cantor", v>>.   *)
(***************************************************************************)
RECURSIVE PrefixLen(_)
\* number of [b] + ... layers the closure puts in front of its argument
PrefixLen(pred) ==
    CASE pred[1] = "shift" -> 1 + PrefixLen(pred[3])
      [] pred[1] \in {"not", "wrap"} -> PrefixLen(pred[2])
      [] OTHER -> 0

\* deepest nesting of find's lambdas the machine follows
MaxShift == StepK + Beyond + 1

Push(frame) == stack' = Append(stack, frame)
Top == stack[Len(stack)]

\* for_some: cantor = Cantor(lambda i: find(pred)[i]); return pred(cantor)
StepForSome ==
    /\ ctl[1] = "for_some"
    /\ ctl' = <<"call", ctl[2], LazyFind(ctl[2])>>
    /\ UNCHANGED <<args, op, index, result, stack>>

\* for_every: return not(for_some(not_pred))
StepForEvery ==
    /\ ctl[1] = "for_every"
    /\ Push(<<"for_every">>)
    /\ ctl' = <<"for_some", not_pred(ctl[2])>>
    /\ UNCHANGED <<args, op, index, result>>

\* equal: return for_every(pred3)
StepEqual ==
    /\ ctl[1] = "equal"
    /\ ctl' = <<"for_every", pred3(ctl[2], ctl[3])>>
    /\ UNCHANGED <<args, op, index, result, stack>>

\* search: if for_some(pred): ...
StepSearch ==
    /\ ctl[1] = "search"
    /\ Push(<<"search", ctl[2]>>)
    /\ ctl' = <<"for_some", ctl[2]>>
    /\ UNCHANGED <<args, op, index, result>>

\* find: if for_some(lambda cantor: pred([False] + cantor)): ...
StepFind ==
    /\ ctl[1] = "find"
    /\ PrefixLen(ctl[2]) < MaxShift
    /\ Push(<<"find", ctl[2]>>)
    /\ ctl' = <<"for_some", Shift(FALSE, ctl[2])>>
    /\ UNCHANGED <<args, op, index, result>>

\* pred(cantor), by the code of pred
StepCall ==
    /\ ctl[1] = "call"
    /\ LET pred == ctl[2]
           cantor == ctl[3]
       IN  CASE pred[1] = "tree" /\ pred[2][1] = "ret" ->
                   /\ ctl' = <<"return", pred[2][2]>>
                   /\ UNCHANGED stack
             [] pred[1] = "tree" /\ pred[2][1] = "ask" ->
                   /\ Push(<<"ask", pred[2], cantor>>)
                   /\ ctl' = <<"getitem", cantor, pred[2][2]>>
             [] pred[1] = "shift" ->
                   /\ ctl' = <<"call", pred[3], shift_argument(pred[2], cantor)>>
                   /\ UNCHANGED stack
             [] pred[1] = "not" ->
                   /\ Push(<<"not">>)
                   /\ ctl' = <<"call", pred[2], cantor>>
             [] pred[1] = "eq" ->
                   /\ Push(<<"eq1", pred[3], cantor>>)
                   /\ ctl' = <<"call", pred[2], cantor>>
             [] pred[1] = "wrap" ->
                   /\ ctl' = <<"call", pred[2], cantor>>
                   /\ UNCHANGED stack
    /\ UNCHANGED <<args, op, index, result>>

\* (a new_func that passes the index on as it is)
new_func_step_same_index(bools, self, i) ==
    IF i < Len(bools)
    THEN <<"return", bools[i + 1]>>
    ELSE <<"getitem", self, i>>
\* Cantor.__radd__.new_func
new_func_step(bools, self, i) ==
    IF i < Len(bools)
    THEN <<"return", bools[i + 1]>>
    ELSE <<"getitem", self, i - Len(bools)>>

\* Cantor.__getitem__: return self.func(index)
StepGetItem ==
    /\ ctl[1] = "getitem"
    /\ LET cantor == ctl[2]
           i == ctl[3]
       IN  CASE cantor[1] = "fn" ->
                   /\ ctl' = <<"return", cantor[2][i]>>
                   /\ UNCHANGED stack
             [] cantor[1] = "radd" ->
                   /\ ctl' = new_func_step(cantor[2], cantor[3], i)
                   /\ UNCHANGED stack
             [] cantor[1] = "lazy" ->
                   /\ Push(<<"index", i>>)
                   /\ ctl' = <<"find", cantor[2]>>
    /\ UNCHANGED <<args, op, index, result>>

\* a callee returned v to the innermost waiting caller, which goes on
StepReturn ==
    /\ ctl[1] \in {"return", "return_cantor"}
    /\ stack # <<>>
    /\ LET v == ctl[2]
           f == Top
           rest == SubSeq(stack, 1, Len(stack) - 1)
       IN  CASE f[1] = "for_every" ->
                   ctl' = <<"return", ~v>> /\ stack' = rest
             [] f[1] = "search" ->
                   /\ ctl' = IF v THEN <<"find", f[2]>> ELSE <<"return_cantor", None>>
                   /\ stack' = rest
             [] f[1] = "find" ->
                   ctl' = <<"return_cantor", find_result(v, f[2])>> /\ stack' = rest
             [] f[1] = "index" ->
                   ctl' = <<"getitem", v, f[2]>> /\ stack' = rest
             [] f[1] = "ask" ->
                   /\ ctl' = <<"call", TreePred(IF v THEN f[2][4] ELSE f[2][3]), f[3]>>
                   /\ stack' = rest
             [] f[1] = "not" ->
                   ctl' = <<"return", ~v>> /\ stack' = rest
             [] f[1] = "eq1" ->
                   /\ ctl' = <<"call", f[2], f[3]>>
                   /\ stack' = Append(rest, <<"eq2", v>>)
             [] f[1] = "eq2" ->
                   ctl' = <<"return", f[2] = v>> /\ stack' = rest
    /\ UNCHANGED <<args, op, index, result>>

Done == ctl[1] \in {"return", "return_cantor"} /\ stack = <<>>

NextStep ==
    \/ StepForSome
    \/ StepForEvery
    \/ StepEqual
    \/ StepSearch
    \/ StepFind
    \/ StepCall
    \/ StepGetItem
    \/ StepReturn

StepTrees == TreesUpTo(StepK, StepNodes)
StepIndices == 0..(StepK + Beyond - 1)

InitStep ==
    /\ result = FALSE
    /\ \/ \E t \in StepTrees :
            /\ args = <<"pred", t>>
            /\ op = "for_some" /\ ctl = <<"for_some", TreePred(t)>>
            /\ stack = <<>> /\ index = 0
       \/ \E t \in TreesUpTo(StepK, StepNodes - 1) :
            /\ args = <<"pred", t>>
            /\ \/ op = "for_every" /\ ctl = <<"for_every", TreePred(t)>> /\ stack = <<>> /\ index = 0
               \/ op = "search" /\ ctl = <<"search", TreePred(t)>> /\ stack = <<>> /\ index = 0
               \/ \E i \in StepIndices :
                     /\ op = "find" /\ ctl = <<"find", TreePred(t)>>
                     /\ stack = << <<"index", i>> >> /\ index = i
       \/ \E t1 \in TreesUpTo(StepK, StepNodes - 1) :
          \E t2 \in {true_pred, false_pred, simple_pred, t1} :
            /\ args = <<"pair", t1, t2>>
            /\ op = "equal" /\ ctl = <<"equal", TreePred(t1), TreePred(t2)>>
            /\ stack = <<>> /\ index = 0

SpecStep == InitStep /\ [][NextStep]_vars
\* the interpreter runs the pending call: it does not stop by itself
SpecStepFair == SpecStep /\ WF_vars(NextStep)

(***************************************************************************)
(* Properties.                                                             *)
(***************************************************************************)
\* the two translations agree on what a call returns
StepsComputeTheValue ==
    Done =>
        ctl[2] = CASE op = "for_some" -> for_some(TreePred(args[2]))
                   [] op = "for_every" -> for_every(TreePred(args[2]))
                   [] op = "search" -> search(TreePred(args[2]))
                   [] op = "find" -> GetItem(find(TreePred(args[2])), index)
                   [] op = "equal" -> equal(TreePred(args[2]), TreePred(args[3]))

IsLeaf(t) == t[1] = "ret"

\* C1: for_some(p) is true exactly when some sequence satisfies p.
ForSomeDecidesSatisfiability ==
    op = "for_some" => (result = Satisfiable(args[2]))

ForSomeFoundWitness ==
    /\ op = "for_some"
    /\ ~IsLeaf(args[2])
    /\ ~Valid(args[2])
    /\ result = TRUE

\* C2: if p is not equal to the always-false predicate then p(find(p)) is
\* true, and otherwise for_some(p) is false.
SatisfiabilityAgreement ==
    op = "test_agreement" =>
        /\ result[1] = "if" => result[2] = TRUE
        /\ result[1] = "else" => result[2] = FALSE

AgreementOnFoundWitness ==
    /\ op = "test_agreement"
    /\ ~IsLeaf(args[2])
    /\ result = <<"if", TRUE>>

\* C3: equal(p1, p2) is true exactly when p1 and p2 agree on every sequence;
\* in particular equal(p, wrapper of p) is true.
EqualDecidesAgreement ==
    /\ op = "equal" => (result = Agree(args[2], args[3]))
    /\ op = "test_reflexive" => (result = TRUE)

EqualOnDistinctCode ==
    /\ op = "equal"
    /\ args[2] # args[3]
    /\ ~IsLeaf(args[2])
    /\ ~IsLeaf(args[3])
    /\ result = TRUE

\* C4: for_every(p) is true exactly when every sequence satisfies p, and it
\* is the negation of for_some of the negated predicate.
ForEveryDecidesValidity ==
    op = "for_every" =>
        /\ result = Valid(args[2])
        /\ result = ~for_some(not_pred(TreePred(args[2])))

ForEveryOnValidTree ==
    /\ op = "for_every"
    /\ ~IsLeaf(args[2])
    /\ result = TRUE

\* C5: (b + c)[i] is b[i] for i < len(b) and c[i - len(b)] otherwise, for
\* every list b (the empty one included); c is left as it was.
PrefixCorrectness ==
    op = "radd" =>
        /\ index < Len(args[2]) => result[1] = args[2][index + 1]
        /\ index >= Len(args[2]) => result[1] = args[3][2][index - Len(args[2])]
        /\ result[2] = args[3]

PrefixPassedOver ==
    /\ op = "radd"
    /\ Len(args[2]) > 0
    /\ index > Len(args[2])
    /\ args[3][2][index - Len(args[2])] = TRUE
    /\ args[3][2][index - Len(args[2]) - 1] = FALSE
    /\ result[1] = TRUE

\* C6: search(p) is None exactly when no sequence satisfies p; otherwise it
\* is a sequence that agrees with find(p) everywhere and satisfies p.
SearchSignalsAbsence ==
    op = "search" =>
        /\ (result = None) <=> ~Satisfiable(args[2])
        /\ result # None =>
              /\ \A i \in Indices : GetItem(result, i) = GetItem(find(TreePred(args[2])), i)
              /\ Call(TreePred(args[2]), result)

SearchReturnedWitness ==
    /\ op = "search"
    /\ ~IsLeaf(args[2])
    /\ result # None

\* C8: on a predicate no sequence satisfies, find(p)[i] is True at every i
\* and p(find(p)) is False.
FindFallsBackToTrue ==
    /\ (op = "find" /\ ~Satisfiable(args[2])) => result = TRUE
    /\ (op = "pred_of_find" /\ ~Satisfiable(args[2])) => result = FALSE

FindOnUnsatisfiable ==
    /\ op = "find"
    /\ ~IsLeaf(args[2])
    /\ ~Satisfiable(args[2])
    /\ index >= K

\* C9: on a satisfiable predicate, find(p) is the lexicographically least
\* witness (False < True): its first K bits are the least satisfying prefix
\* and every later bit is False.
FindIsLeastWitness ==
    (op = "find" /\ Satisfiable(args[2])) =>
        result = IF index < K THEN LeastPoint(args[2])[2][index] ELSE FALSE

FindSetABit ==
    /\ op = "find"
    /\ Satisfiable(args[2])
    /\ index > 0
    /\ result = TRUE

\* the predicates and sequences a state of the run holds
CantorPrefixLen(c) ==
    LET RECURSIVE cpl(_)
        cpl(x) == CASE x[1] = "lazy" -> PrefixLen(x[2])
                    [] x[1] = "radd" -> cpl(x[3])
                    [] OTHER -> 0
    IN  cpl(c)

ItemPrefixLen(x) ==
    CASE x[1] \in {"for_some", "for_every", "search", "find"} -> PrefixLen(x[2])
      [] x[1] = "call" ->
            IF PrefixLen(x[2]) > CantorPrefixLen(x[3]) THEN PrefixLen(x[2]) ELSE CantorPrefixLen(x[3])
      [] x[1] \in {"getitem", "return_cantor"} -> CantorPrefixLen(x[2])
      [] x[1] \in {"ask", "eq1"} -> CantorPrefixLen(x[3])
      [] OTHER -> 0

RECURSIVE BasePred(_)
BasePred(pred) == IF pred[1] = "shift" THEN BasePred(pred[3]) ELSE pred

\* C7: every call of for_some, for_every, equal, search and every read
\* find(p)[i] on index-bounded predicates eventually returns.
EveryCallReturns == <>Done

ReturnedFromNestedSearch ==
    /\ Done
    /\ op = "equal"
    /\ ~IsLeaf(args[2])
    /\ ~IsLeaf(args[3])
    /\ ctl = <<"return", FALSE>>

\* C10: while for_some(p) runs, every predicate made by find is
\* c => p(prefix + c) with a prefix no longer than k, where p looks at
\* indices < k only.
PrefixesStayWithinBound ==
    op = "for_some" =>
        /\ ItemPrefixLen(ctl) <= Bound(args[2])
        /\ \A n \in 1..Len(stack) : ItemPrefixLen(stack[n]) <= Bound(args[2])
        /\ ctl[1] \in {"for_some", "find"} => BasePred(ctl[2]) = TreePred(args[2])

PrefixReachesBound ==
    /\ op = "for_some"
    /\ ctl[1] = "for_some"
    /\ Bound(args[2]) = StepK
    /\ PrefixLen(ctl[2]) = StepK
    /\ Len(stack) > StepK

====
